---- MODULE Spec2Model ----
(***************************************************************************)
(* A state-machine model of the two CAVI engines of coloc:                 *)
(*   CAFEH2               (src/coloc/cafeh2.py), the covariance engine     *)
(*   IndependentFactorSER (src/coloc/independent_model2.py), the sample    *)
(*                        engine                                           *)
(* Floating-point numbers are modelled as exact rationals <<n, d>> in      *)
(* lowest terms (d > 0); <<0, 0>> is NaN (any non-finite value).  Arrays   *)
(* are 1-based sequences: component k of the code is k + 1 here.           *)
(***************************************************************************)
EXTENDS Integers, Sequences, FiniteSets, TLC

VARIABLES
    engine,             \* "cov" (CAFEH2) or "sample" (IndependentFactorSER)
    R1,                 \* CAFEH2.R1, N x N
    R2invR1,            \* CAFEH2.R2invR1 = solve(R2, R1)
    R1R2invR1,          \* CAFEH2.R1R2invR1 = R1 @ R2invR1
    X,                  \* IndependentFactorSER.X, genotypes, N x M
    covariates,         \* IndependentFactorSER.covariates; <<>> is None
    Y,                  \* outcomes, T x N (cov) or T x M (sample, NaN = missing)
    prior_precision,    \* T x K
    prior_pi,           \* N
    pi,                 \* K x N
    weight_means,       \* T x K x N
    weight_vars,        \* T x K x N
    active,             \* CAFEH2.active, T x K
    cov_weights,        \* IndependentFactorSER.cov_weights; <<>> is None
    weight_precision_a, \* T x K, sample engine
    weight_precision_b, \* T x K, sample engine
    tissue_precision_a, \* T, sample engine
    tissue_precision_b, \* T, sample engine
    elbos,              \* the ELBO trace
    cache,              \* lru_cache of _compute_prediction_component_hash /
                        \* _compute_first_moment_hash, least recent first
    cache2,             \* lru_cache of _compute_second_moment_hash
    pc,                 \* where fit stands: "idle" outside fit
    frame,              \* fit's arguments and locals
    outcome,            \* how the last call ended
    sweeps,             \* sweeps executed so far, over all fit calls
    arg_prior_variance, \* the constructor's prior_variance argument
    ops                 \* public calls and fit sweeps started so far

vars == <<engine, R1, R2invR1, R1R2invR1, X, covariates, Y, prior_precision,
          prior_pi, pi, weight_means, weight_vars, active, cov_weights,
          weight_precision_a, weight_precision_b, tissue_precision_a,
          tissue_precision_b, elbos, cache, cache2, pc, frame, outcome,
          sweeps, arg_prior_variance, ops>>

----------------------------------------------------------------------------
(* Bounds of the model *)

\* public calls and fit sweeps explored per behaviour
MaxOps == 2

\* largest max_iter passed to fit
MaxIter == 2

\* updates are explored from states whose numerators and denominators are
\* at most MaxNum in magnitude
MaxNum == 300

\* the rate parameter of the noise precision, a sum of squares over the
\* samples, is followed up to MaxRate in numerator and denominator
MaxRate == 600

\* ELBO values are drawn from 0..MaxElbo, in units of the tolerance
MaxElbo == 1

----------------------------------------------------------------------------
(* Rational arithmetic standing for numpy's float arithmetic *)

NaN == <<0, 0>>

Abs(i) == IF i < 0 THEN -i ELSE i

RECURSIVE GCD(_, _)
GCD(a, b) == IF b = 0 THEN a ELSE GCD(b, a % b)

Norm(n, d) ==
    LET s == IF d < 0 THEN -1 ELSE 1
        g == GCD(Abs(n), Abs(d))
    IN  <<(s * n) \div g, (s * d) \div g>>

IsNaN(a) == a[2] = 0

R(i) == <<i, 1>>

Frac(n, d) == Norm(n, d)

RAdd(a, b) ==
    IF IsNaN(a) \/ IsNaN(b) THEN NaN
    ELSE LET g == GCD(a[2], b[2])
         IN  Norm(a[1] * (b[2] \div g) + b[1] * (a[2] \div g),
                  (a[2] \div g) * b[2])

RNeg(a) == <<-a[1], a[2]>>

RSub(a, b) == RAdd(a, RNeg(b))

RMul(a, b) ==
    IF IsNaN(a) \/ IsNaN(b) THEN NaN
    ELSE LET g == GCD(Abs(a[1]), b[2])
             h == GCD(Abs(b[1]), a[2])
         IN  Norm((a[1] \div g) * (b[1] \div h), (a[2] \div h) * (b[2] \div g))

\* x / 0 is inf or nan in numpy: non-finite
RDiv(a, b) ==
    IF IsNaN(a) \/ IsNaN(b) \/ b[1] = 0 THEN NaN
    ELSE RMul(a, Norm(b[2], b[1]))

\* comparisons with NaN are False
RLt(a, b) == ~IsNaN(a) /\ ~IsNaN(b) /\ RSub(a, b)[1] < 0

RLe(a, b) == ~IsNaN(a) /\ ~IsNaN(b) /\ RSub(a, b)[1] <= 0

RAbs(a) == <<Abs(a[1]), a[2]>>

RMax(a, b) == IF RLt(a, b) THEN b ELSE a

\* sum of the first n entries of the sequence s
RECURSIVE SumTo(_, _)
SumTo(s, n) == IF n = 0 THEN R(0) ELSE RAdd(SumTo(s, n - 1), s[n])

Sum(s) == SumTo(s, Len(s))

\* elementwise operations on vectors
VAdd(u, v) == [i \in 1..Len(u) |-> RAdd(u[i], v[i])]

VSub(u, v) == [i \in 1..Len(u) |-> RSub(u[i], v[i])]

VMul(u, v) == [i \in 1..Len(u) |-> RMul(u[i], v[i])]

VScale(c, v) == [i \in 1..Len(v) |-> RMul(c, v[i])]

Dot(u, v) == Sum(VMul(u, v))

\* v @ A for a vector v and a matrix A (a sequence of rows)
VecMat(v, A) ==
    [j \in 1..Len(A[1]) |-> Sum([i \in 1..Len(v) |-> RMul(v[i], A[i][j])])]

\* A @ B
MatMul(A, B) == [i \in 1..Len(A) |-> VecMat(A[i], B)]

\* elementwise operations on matrices
MAdd(A, B) == [i \in 1..Len(A) |-> VAdd(A[i], B[i])]

MSub(A, B) == [i \in 1..Len(A) |-> VSub(A[i], B[i])]

Diag(A) == [i \in 1..Len(A) |-> A[i][i]]

Zeros(n) == [i \in 1..n |-> R(0)]

ZerosLike(A) == [i \in 1..Len(A) |-> Zeros(Len(A[i]))]

Ones(n) == [i \in 1..n |-> R(1)]

\* F applied to the value of v: v is computed once and F works on the result
Bind(v, F(_)) == CHOOSE r \in {F(x) : x \in {v}} : TRUE

----------------------------------------------------------------------------
(* Dimensions, CAFEH2.__init__ / IndependentFactorSER.__init__ *)

T == Len(Y)

K == Len(pi)

N == Len(pi[1])

M == Len(Y[1])

----------------------------------------------------------------------------
(* Constructor arguments the model explores (N = 2 variants, K = 2) *)

IntVec(v) == [i \in 1..Len(v) |-> R(v[i])]

IntMat(A) == [i \in 1..Len(A) |-> IntVec(A[i])]

Identity2 == IntMat(<<<<1, 0>>, <<0, 1>>>>)

\* CAFEH2(R1, R2, Y, K, prior_variance, prior_pi); prior_pi = <<>> is None
CovInputs ==
    { [R1 |-> IntMat(<<<<1, 0>>, <<0, 2>>>>), R2 |-> Identity2,
       Y |-> IntMat(<<<<-32, 25>>>>), K |-> 2, prior_variance |-> R(1),
       prior_pi |-> <<>>],
      [R1 |-> Identity2, R2 |-> Identity2,
       Y |-> IntMat(<<<<1, -1>>>>), K |-> 2, prior_variance |-> R(1),
       prior_pi |-> <<>>],
      [R1 |-> Identity2, R2 |-> Identity2,
       Y |-> IntMat(<<<<1, 0>>, <<0, 2>>>>), K |-> 2, prior_variance |-> R(2),
       prior_pi |-> <<Frac(1, 4), Frac(3, 4)>>] }

\* IndependentFactorSER(X, Y, K, covariates, prior_variance, prior_pi):
\* M = 3 samples, T = 2 channels,
\* the second channel entirely missing.  covariates[t] is the design matrix
\* of channel t (values, one row per covariate) with the samples it covers
\* (map, the sample_covariate_map of line 51); as in
\* misc.compute_summary_stats, a channel has covariates for exactly the
\* samples it observes, and the design matrices have one row.
SampleInputs ==
    { [X |-> IntMat(<<<<1, 0, 1>>, <<0, 1, -1>>>>),
       Y |-> <<IntVec(<<1, -1, 1>>), <<NaN, NaN, NaN>>>>,
       K |-> 2, covariates |-> <<>>, prior_variance |-> R(2),
       prior_pi |-> <<Frac(1, 5), Frac(4, 5)>>],
      [X |-> IntMat(<<<<1, 0, 1>>, <<0, 1, 1>>>>),
       Y |-> <<<<R(1), NaN, R(2)>>, <<NaN, NaN, NaN>>>>,
       K |-> 2, prior_variance |-> R(1), prior_pi |-> <<>>,
       covariates |->
           << [values |-> IntMat(<<<<1, 1>>>>), map |-> <<TRUE, FALSE, TRUE>>],
              [values |-> <<<<>>>>, map |-> <<FALSE, FALSE, FALSE>>] >>],
      [X |-> IntMat(<<<<1, 1, 1, 1, 1, 1, 1>>, <<1, 0, 0, 0, 0, 0, 0>>>>),
       Y |-> <<<<Frac(3, 2), Frac(17, 16), Frac(17, 16), Frac(17, 16),
                 Frac(17, 16), Frac(17, 16), Frac(17, 16)>>>>,
       K |-> 1, covariates |-> <<>>, prior_variance |-> R(1),
       prior_pi |-> <<Frac(3, 4), Frac(1, 4)>>] }

\* np.linalg.solve(A, B) for a 2 x 2 matrix A: inverse by the adjugate
Det2(A) == RSub(RMul(A[1][1], A[2][2]), RMul(A[1][2], A[2][1]))

Inverse2(A) ==
    LET d == Det2(A)
    IN  << <<RDiv(A[2][2], d), RDiv(RNeg(A[1][2]), d)>>,
           <<RDiv(RNeg(A[2][1]), d), RDiv(A[1][1], d)>> >>

\* the n x n identity
IdentityN(n) == [i \in 1..n |-> [j \in 1..n |-> IF i = j THEN R(1) ELSE R(0)]]

\* A must be square and B must have as many rows: np.linalg.solve raises
\* ValueError otherwise
SolveRaises(A, B) == Len(A) # Len(A[1]) \/ Len(B) # Len(A)

Solve(A, B) ==
    IF A = IdentityN(Len(A)) THEN B ELSE MatMul(Inverse2(A), B)

----------------------------------------------------------------------------
(* functools.lru_cache: a sequence of entries, least recently used first *)

\* lru_cache(maxsize=128), cafeh2.py:81; lru_cache() of
\* independent_model2.py:124 defaults to the same
CacheMaxSize == 128

\* lru_cache(maxsize=2**5), independent_model2.py:142
Cache2MaxSize == 32

CacheIndex(c, k, h) ==
    IF \E i \in 1..Len(c) : c[i].k = k /\ c[i].h = h
    THEN CHOOSE i \in 1..Len(c) : c[i].k = k /\ c[i].h = h
    ELSE 0

CacheHit(c, k, h) == CacheIndex(c, k, h) # 0

Remove(c, i) == [j \in 1..(Len(c) - 1) |-> IF j < i THEN c[j] ELSE c[j + 1]]

\* the value a call with key (k, h) returns: the stored one on a hit,
\* otherwise the freshly computed one
CacheValue(c, k, h, fresh) ==
    IF CacheHit(c, k, h) THEN c[CacheIndex(c, k, h)].val ELSE fresh

\* the cache after that call: a hit becomes most recent, a miss is stored,
\* evicting the least recently used entry of a full cache
CacheAfter(c, k, h, fresh, maxsize) ==
    IF CacheHit(c, k, h)
    THEN Append(Remove(c, CacheIndex(c, k, h)), c[CacheIndex(c, k, h)])
    ELSE LET e == [k |-> k, h |-> h, val |-> fresh]
         IN  IF Len(c) >= maxsize THEN Append(Tail(c), e) ELSE Append(c, e)

----------------------------------------------------------------------------
(* np.log and np.exp.  TLA+ has no reals: both are modelled on a coarse     *)
(* binary grid, Ln(x) as floor(log2 x) and Exp(q), q <= 0, as 2^floor(q),   *)
(* underflowing to 0.  They keep what the update rules rely on: both are    *)
(* monotone, Ln(1) = 0, Exp(0) = 1 and Exp >= 0.                            *)

\* exponent below which Exp underflows to 0
ExpUnderflow == 3

RECURSIVE Log2Floor(_)
Log2Floor(x) ==
    IF RLe(R(2), x) THEN 1 + Log2Floor(RDiv(x, R(2)))
    ELSE IF RLt(x, R(1)) THEN Log2Floor(RMul(x, R(2))) - 1
    ELSE 0

\* np.log: nan or -inf outside the positive numbers
Ln(x) == IF IsNaN(x) \/ ~RLt(R(0), x) THEN NaN ELSE R(Log2Floor(x))

RECURSIVE Pow2(_)
Pow2(n) == IF n = 0 THEN 1 ELSE 2 * Pow2(n - 1)

\* np.exp of q <= 0
Exp(q) ==
    IF IsNaN(q) THEN NaN
    ELSE LET n == ((-q[1]) + q[2] - 1) \div q[2]
         IN  IF n > ExpUnderflow THEN R(0) ELSE Frac(1, Pow2(n))

\* np.max of a vector: nan if any entry is
RECURSIVE MaxTo(_, _)
MaxTo(s, n) ==
    IF n = 1 THEN s[1]
    ELSE IF IsNaN(s[n]) \/ IsNaN(MaxTo(s, n - 1)) THEN NaN
    ELSE RMax(MaxTo(s, n - 1), s[n])

VMax(s) == MaxTo(s, Len(s))

\* a faulty normalisation, which leaves out the division by the sum: the
\* invariant of C5 has to tell it from Normalize
NormalizeByMax(x) == [n \in 1..Len(x) |-> Exp(RSub(x[n], VMax(x)))]

\* pi_k = np.exp(pi_k - pi_k.max()); pi_k = pi_k / pi_k.sum()
\* (cafeh2.py:167-168, independent_model2.py:316-317)
Normalize(x) ==
    LET e == [n \in 1..Len(x) |-> Exp(RSub(x[n], VMax(x)))]
    IN  [n \in 1..Len(x) |-> RDiv(e[n], Sum(e))]

\* kls.normal_kl(mu_q, var_q, mu_p, var_p), the KL divergence of two normals:
\* 0.5 * (ln var_p - ln var_q + var_q / var_p + (mu_q - mu_p)^2 / var_p - 1)
normal_kl(mu_q, var_q, mu_p, var_p) ==
    RMul(Frac(1, 2),
         RSub(RAdd(RAdd(RSub(Ln(var_p), Ln(var_q)), RDiv(var_q, var_p)),
                   RDiv(RMul(RSub(mu_q, mu_p), RSub(mu_q, mu_p)), var_p)),
              R(1)))

----------------------------------------------------------------------------
(* The variational state the rules read and write, as one record.  A rule   *)
(* that returns a value is an operator giving [val, m]: the value and the   *)
(* state the call leaves (the memo caches are part of it).                  *)

Cur ==
    [pi |-> pi, wm |-> weight_means, wv |-> weight_vars, act |-> active,
     pp |-> prior_precision, cw |-> cov_weights,
     wpa |-> weight_precision_a, wpb |-> weight_precision_b,
     tpa |-> tissue_precision_a, tpb |-> tissue_precision_b,
     cache |-> cache, cache2 |-> cache2]

----------------------------------------------------------------------------
(* The covariance engine, CAFEH2 *)

\* CAFEH2.prior_component_precision: np.ones(K), never written
prior_component_precision == Ones(K)

\* CAFEH2.prior_variance(): 1 / (prior_precision * prior_component_precision)
PriorVariance(pp) ==
    [t \in 1..Len(pp) |-> [k \in 1..Len(pp[t]) |->
        RDiv(R(1), RMul(pp[t][k], prior_component_precision[k]))]]

prior_variance == PriorVariance(prior_precision)

\* the body of _compute_prediction_component_hash for 2-d R1:
\* active[:, k][:, None] * (pi[k] * weight_means[:, k]) @ R1
PredictionComponentDirect(act, p, wm, k) ==
    [t \in 1..Len(wm) |-> VScale(act[t][k], VecMat(VMul(p[k], wm[t][k]), R1))]

\* h = (pi[k] @ weight_means[:, k].T).tobytes(), the fingerprint in the key
\* of the memo cache, in both engines
Fingerprint(p, wm, k) == [t \in 1..Len(wm) |-> Dot(p[k], wm[t][k])]

----------------------------------------------------------------------------
(* The sample engine, IndependentFactorSER: masks, moments, covariates *)

\* the hyper-parameters a, b, c, d of IndependentFactorSER.__init__: one
\* small positive number (1e-6 in the source, 1/8 on the model's grid)
Epsilon == Frac(1, 8)

hyper_a == Epsilon

hyper_b == Epsilon

hyper_c == Epsilon

hyper_d == Epsilon

\* a faulty mask, which takes every sample as observed: the property of C9
\* has to tell it from Mask
MaskAll(t) == [j \in 1..M |-> TRUE]

\* _get_mask(tissue): ~np.isnan(Y[tissue])
Mask(t) == [j \in 1..M |-> ~IsNaN(Y[t][j])]

\* mask.sum()
NSamples(t) == Cardinality({j \in 1..M : Mask(t)[j]})

\* v[mask].sum() for a row v of length M
MaskedSum(v, t) == Sum([j \in 1..M |-> IF Mask(t)[j] THEN v[j] ELSE R(0)])

\* _get_diag(tissue): einsum('ij, ij->i', X[:, mask], X[:, mask])
GetDiag(t) == [n \in 1..N |-> MaskedSum(VMul(X[n], X[n]), t)]

\* expected_tissue_precision, expected_weight_precision
ExpectedTissuePrecision(m) ==
    [t \in 1..Len(m.tpa) |-> RDiv(m.tpa[t], m.tpb[t])]

ExpectedWeightPrecision(m) ==
    [t \in 1..Len(m.wpa) |-> [k \in 1..Len(m.wpa[t]) |->
        RDiv(m.wpa[t][k], m.wpb[t][k])]]

\* expected_effects: einsum('ijk,jk->ik', weight_means, pi), T x N
ExpectedEffects(m) ==
    [t \in 1..Len(m.wm) |-> [n \in 1..N |->
        Sum([k \in 1..Len(m.pi) |-> RMul(m.wm[t][k][n], m.pi[k][n])])]]

\* the body of _compute_first_moment_hash: (pi * weight) @ X
FirstMomentDirect(p, wm, k) ==
    [t \in 1..Len(wm) |-> VecMat(VMul(p[k], wm[t][k]), X)]

\* the body of _compute_second_moment_hash: (pi * (weight**2 + var)) @ X**2
SecondMomentDirect(m, k) ==
    [t \in 1..Len(m.wm) |->
        VecMat([n \in 1..N |->
                   RMul(m.pi[k][n], RAdd(RMul(m.wm[t][k][n], m.wm[t][k][n]),
                                         m.wv[t][k][n]))],
               [n \in 1..N |-> VMul(X[n], X[n])])]

\* h = (pi @ (weight + var**2).T).tobytes() of compute_second_moment
Fingerprint2(m, k) ==
    [t \in 1..Len(m.wm) |->
        Dot(m.pi[k], [n \in 1..N |->
                         RAdd(m.wm[t][k][n],
                              RMul(m.wv[t][k][n], m.wv[t][k][n]))])]

\* x[map] for a boolean map: the entries of x it selects, in order
RECURSIVE SelectTo(_, _, _)
SelectTo(x, map, j) ==
    IF j = 0 THEN <<>>
    ELSE IF map[j] THEN Append(SelectTo(x, map, j - 1), x[j])
    ELSE SelectTo(x, map, j - 1)

Select(x, map) == SelectTo(x, map, Len(x))

\* the position of sample j among the samples a map selects
Position(map, j) == Cardinality({i \in 1..j : map[i]})

\* _compute_covariate_prediction(compute)
CovariatePrediction(m, compute) ==
    [t \in 1..T |-> [j \in 1..M |->
        IF covariates # <<>> /\ compute /\ covariates[t].map[j]
        THEN VecMat(m.cw[t], covariates[t].values)[Position(covariates[t].map, j)]
        ELSE R(0)]]

\* np.linalg.pinv(X.T) @ Y for a design matrix X of one row x:
\* x . Y / x . x, and 0 when x is zero or empty
PinvApply(values, y) ==
    LET x == values[1]
    IN  <<IF Dot(x, x) = R(0) THEN R(0) ELSE RDiv(Dot(x, y), Dot(x, x))>>

----------------------------------------------------------------------------
(* Predictions and residuals, both engines *)

\* what _compute_prediction_component_hash / _compute_first_moment_hash
\* computes from the state m
ComponentDirect(m, k) ==
    IF engine = "cov" THEN PredictionComponentDirect(m.act, m.pi, m.wm, k)
    ELSE FirstMomentDirect(m.pi, m.wm, k)

\* compute_prediction_component(k) / compute_first_moment(k): the value
\* returned ...
ComponentValue(m, k) ==
    CacheValue(m.cache, k, Fingerprint(m.pi, m.wm, k), ComponentDirect(m, k))

\* ... and the cache it leaves
ComponentCache(m, k) ==
    CacheAfter(m.cache, k, Fingerprint(m.pi, m.wm, k), ComponentDirect(m, k),
               CacheMaxSize)

Touch(m, k) == [m EXCEPT !.cache = ComponentCache(m, k)]

\* compute_second_moment(k): the value returned and the cache it leaves
SecondMomentValue(m, k) ==
    CacheValue(m.cache2, k, Fingerprint2(m, k), SecondMomentDirect(m, k))

Touch2(m, k) ==
    [m EXCEPT !.cache2 = CacheAfter(m.cache2, k, Fingerprint2(m, k),
                                    SecondMomentDirect(m, k), Cache2MaxSize)]

\* [compute_first_moment(k) for k in range(l)]: the values and the state left
RECURSIVE FirstMomentsTo(_, _)
FirstMomentsTo(m, l) ==
    IF l = 0 THEN [vals |-> <<>>, m |-> m]
    ELSE Bind(FirstMomentsTo(m, l - 1),
              LAMBDA p : [vals |-> Append(p.vals, ComponentValue(p.m, l)),
                          m |-> Touch(p.m, l)])

\* [compute_second_moment(k) for k in range(l)]
RECURSIVE SecondMomentsTo(_, _)
SecondMomentsTo(m, l) ==
    IF l = 0 THEN [vals |-> <<>>, m |-> m]
    ELSE Bind(SecondMomentsTo(m, l - 1),
              LAMBDA p : [vals |-> Append(p.vals, SecondMomentValue(p.m, l)),
                          m |-> Touch2(p.m, l)])

\* the loop of CAFEH2.compute_prediction over components l..K, from acc
RECURSIVE PredictionLoop(_, _, _)
PredictionLoop(m, l, acc) ==
    IF l > Len(m.pi) THEN [val |-> acc, m |-> m]
    ELSE Bind([val |-> MAdd(acc, ComponentValue(m, l)), m |-> Touch(m, l)],
              LAMBDA s : PredictionLoop(s.m, l + 1, s.val))

\* compute_prediction(k, use_covariates); k = 0 stands for None.  CAFEH2 sums
\* the memoised contributions; IndependentFactorSER adds expected_effects @ X
\* to the covariate prediction.  Both subtract the memoised contribution of k.
ComputePrediction(m, k, use_covariates) ==
    Bind(IF engine = "cov" THEN PredictionLoop(m, 1, ZerosLike(Y))
         ELSE [val |-> MAdd(CovariatePrediction(m, use_covariates),
                            MatMul(ExpectedEffects(m), X)),
               m |-> m],
         LAMBDA all :
             IF k = 0 THEN all
             ELSE [val |-> MSub(all.val, ComponentValue(all.m, k)),
                   m |-> Touch(all.m, k)])

\* compute_residual(k, use_covariates)
ComputeResidual(m, k, use_covariates) ==
    Bind(ComputePrediction(m, k, use_covariates),
         LAMBDA p : [val |-> MSub(Y, p.val), m |-> p.m])

\* r_k[np.isnan(self.Y)] = 0
ZeroMissing(r) ==
    [t \in 1..T |-> [j \in 1..M |-> IF IsNaN(Y[t][j]) THEN R(0) ELSE r[t][j]]]

\* the residual a component rule works on: the one passed (res = <<>> stands
\* for None), else compute_residual(k); the sample engine zeroes its missing
\* entries in place
RuleResidual(m, k, res) ==
    Bind(IF res = <<>> THEN ComputeResidual(m, k, TRUE)
         ELSE [val |-> res, m |-> m],
         LAMBDA rc :
             IF engine = "sample"
             THEN [val |-> ZeroMissing(rc.val), m |-> rc.m]
             ELSE rc)

----------------------------------------------------------------------------
(* Weight updates *)

\* the loop body of CAFEH2._update_weight_component for one tissue: the new
\* rows of weight_vars[tissue, k] and weight_means[tissue, k]
WeightRow(pp, r_k, tissue, k) ==
    LET precision == [n \in 1..Len(R1) |->
                        RAdd(Diag(R1R2invR1)[n],
                             RDiv(R(1), PriorVariance(pp)[tissue][k]))]
        variance  == [n \in 1..Len(R1) |-> RDiv(R(1), precision[n])]
        mean      == VMul(VecMat(r_k[tissue], R2invR1), variance)
    IN  [variance |-> variance, mean |-> mean]

\* the same rows in IndependentFactorSER._update_weight_component
SampleWeightRow(m, r_k, tissue, k) ==
    LET etp       == ExpectedTissuePrecision(m)[tissue]
        precision == [n \in 1..N |->
                        RAdd(RMul(GetDiag(tissue)[n], etp),
                             ExpectedWeightPrecision(m)[tissue][k])]
        variance  == [n \in 1..N |-> RDiv(R(1), precision[n])]
        mean      == [n \in 1..N |->
                        RMul(RMul(variance[n], etp), Dot(r_k[tissue], X[n]))]
    IN  [variance |-> variance, mean |-> mean]

\* a faulty weight update, which moves the means only half way to their new
\* values: the property of C11 has to tell it from UpdateWeightComponent
UpdateWeightComponentHalfWay(m, k, res) ==
    Bind(RuleResidual(m, k, res), LAMBDA rc :
      Bind([t \in 1..Len(m.wm) |->
               IF engine = "cov" THEN WeightRow(m.pp, rc.val, t, k)
               ELSE SampleWeightRow(m, rc.val, t, k)],
           LAMBDA row :
             [rc.m EXCEPT !.wv = [t \in 1..Len(m.wv) |->
                                     [m.wv[t] EXCEPT ![k] = row[t].variance]],
                          !.wm = [t \in 1..Len(m.wm) |->
                                     [m.wm[t] EXCEPT ![k] =
                                         VScale(Frac(1, 2),
                                                VAdd(@, row[t].mean))]]]))

\* _update_weight_component(k, residual)
UpdateWeightComponent(m, k, res) ==
    Bind(RuleResidual(m, k, res), LAMBDA rc :
      Bind([t \in 1..Len(m.wm) |->
               IF engine = "cov" THEN WeightRow(m.pp, rc.val, t, k)
               ELSE SampleWeightRow(m, rc.val, t, k)],
           LAMBDA row :
             [rc.m EXCEPT !.wv = [t \in 1..Len(m.wv) |->
                                     [m.wv[t] EXCEPT ![k] = row[t].variance]],
                          !.wm = [t \in 1..Len(m.wm) |->
                                     [m.wm[t] EXCEPT ![k] = row[t].mean]]]))

\* second_moment = (weight_vars[:, k] + weight_means[:, k]**2) @ pi[k], the
\* expected second moment of the weights of component k in each channel
WeightSecondMoment(m, k) ==
    [t \in 1..Len(m.wm) |->
        Dot([n \in 1..N |-> RAdd(m.wv[t][k][n],
                                 RMul(m.wm[t][k][n], m.wm[t][k][n]))],
            m.pi[k])]

\* CAFEH2.alpha0 = 1.0 and beta0 = 1e-10 (a small positive number: Epsilon on
\* the model's grid)
alpha0 == R(1)

beta0 == Epsilon

\* the range np.clip keeps the ARD precision in, [1e-10, 1e5] in the source:
\* on the model's grid a range some precisions fall above, as 1e5 lies below
\* (alpha - 1) / beta0
ClipLow == Frac(1, 16)

ClipHigh == R(3)

\* np.clip(x, lo, hi)
Clip(x, lo, hi) == IF RLt(x, lo) THEN lo ELSE IF RLt(hi, x) THEN hi ELSE x

\* the ARD branch of CAFEH2._update_weight_component(k, ARD=True), lines
\* 124-128: prior_precision[:, k] = clip((alpha - 1) / beta, 1e-10, 1e5)
ARDPrecision(m, k) ==
    LET alpha == RAdd(alpha0, Frac(1, 2))
        beta  == [t \in 1..Len(m.wm) |->
                     RAdd(beta0,
                          RMul(RDiv(WeightSecondMoment(m, k)[t], R(2)),
                               prior_component_precision[k]))]
    IN  [m EXCEPT !.pp = [t \in 1..Len(m.pp) |->
                             [m.pp[t] EXCEPT ![k] =
                                 Clip(RDiv(RSub(alpha, R(1)), beta[t]),
                                      ClipLow, ClipHigh)]]]

\* IndependentFactorSER.update_ARD_weights(k)
UpdateARDWeights(m, k) ==
    LET second_moment == WeightSecondMoment(m, k)
    IN  [m EXCEPT !.wpa = [t \in 1..Len(m.wpa) |->
                              [m.wpa[t] EXCEPT ![k] = RAdd(hyper_a, Frac(1, 2))]],
                  !.wpb = [t \in 1..Len(m.wpb) |->
                              [m.wpb[t] EXCEPT ![k] =
                                  RAdd(hyper_b, RDiv(second_moment[t], R(2)))]]]

----------------------------------------------------------------------------
(* Assignment updates *)

\* the unnormalised pi_k of CAFEH2._update_pi_component, lines 158-164
PiScore(m, k, r_k) ==
    LET rR == [t \in 1..Len(m.wm) |-> VecMat(r_k[t], R2invR1)]
        s  == [t \in 1..Len(m.wm) |-> [n \in 1..Len(R1) |->
                 RSub(RSub(RMul(rR[t][n], m.wm[t][k][n]),
                           RMul(Frac(1, 2),
                                RMul(RAdd(RMul(m.wm[t][k][n], m.wm[t][k][n]),
                                          m.wv[t][k][n]),
                                     Diag(R1R2invR1)[n]))),
                      normal_kl(m.wm[t][k][n], m.wv[t][k][n], R(0),
                                PriorVariance(m.pp)[t][k]))]]
    IN  [n \in 1..Len(R1) |->
            Sum([t \in 1..Len(m.wm) |-> RMul(s[t][n], m.act[t][k])])]

\* pi_k of IndependentFactorSER._update_pi_component before the prior is
\* added, lines 304-314: (tmp1 + tmp2 + tmp3).sum(0)
SampleEvidence(m, k, r_k) ==
    LET etp  == ExpectedTissuePrecision(m)
        half == [t \in 1..Len(m.wm) |-> RMul(Frac(-1, 2), etp[t])]
        tmp1 == [t \in 1..Len(m.wm) |-> [n \in 1..N |->
                   RMul(half[t],
                        RAdd(RMul(RMul(R(-2), Dot(r_k[t], X[n])), m.wm[t][k][n]),
                             RMul(RMul(m.wm[t][k][n], m.wm[t][k][n]),
                                  GetDiag(t)[n])))]]
        tmp2 == [t \in 1..Len(m.wm) |-> [n \in 1..N |->
                   RMul(RMul(half[t], m.wv[t][k][n]), GetDiag(t)[n])]]
        tmp3 == [t \in 1..Len(m.wm) |-> [n \in 1..N |->
                   RNeg(normal_kl(m.wm[t][k][n], m.wv[t][k][n], R(0),
                                  RDiv(R(1), ExpectedWeightPrecision(m)[t][k])))]]
    IN  [n \in 1..N |->
            Sum([t \in 1..Len(m.wm) |->
                    RAdd(RAdd(tmp1[t][n], tmp2[t][n]), tmp3[t][n])])]

\* np.log(self.prior_pi)
LogPrior == [n \in 1..Len(prior_pi) |-> Ln(prior_pi[n])]

\* the unnormalised pi_k of IndependentFactorSER._update_pi_component, line
\* 315: pi_k += np.log(self.prior_pi)
SamplePiScore(m, k, r_k) == VAdd(SampleEvidence(m, k, r_k), LogPrior)

\* _update_pi_component(k, residual)
UpdatePiComponent(m, k, res) ==
    Bind(RuleResidual(m, k, res), LAMBDA rc :
      Bind(IF engine = "cov" THEN PiScore(m, k, rc.val)
           ELSE SamplePiScore(m, k, rc.val),
           LAMBDA score :
             [rc.m EXCEPT !.pi = [m.pi EXCEPT ![k] = Normalize(score)]]))

----------------------------------------------------------------------------
(* The expected residual sum of squares, sample engine *)

Square(v) == VMul(v, v)

\* np.sum(residual[tissue, mask]**2)
ResidualSS(residual, t) == MaskedSum(Square(residual[t]), t)

\* np.sum(rows, axis=0)[t] for a list of T x M arrays
SumRows(rows, t) ==
    [j \in 1..M |-> Sum([k \in 1..Len(rows) |-> rows[k][t][j]])]

\* _compute_ERSS(residual); res = <<>> stands for None.  The last line is
\* ((mu2 - mu) * mask).sum(1): a product with the mask, not a selection.
ComputeERSS(m, res) ==
    Bind(IF res = <<>> THEN ComputeResidual(m, 0, TRUE)
         ELSE [val |-> res, m |-> m], LAMBDA rc :
      Bind(FirstMomentsTo(rc.m, Len(m.pi)), LAMBDA f :
        Bind(SecondMomentsTo(f.m, Len(m.pi)), LAMBDA s :
          Bind([t \in 1..T |->
                   SumRows([k \in 1..Len(m.pi) |->
                               [u \in 1..T |-> Square(f.vals[k][u])]], t)],
               LAMBDA mu :
            Bind([t \in 1..T |-> SumRows(s.vals, t)], LAMBDA mu2 :
              [val |-> [t \in 1..T |->
                          RAdd(ResidualSS(rc.val, t),
                               Sum([j \in 1..M |->
                                      RMul(RSub(mu2[t][j], mu[t][j]),
                                           IF Mask(t)[j] THEN R(1)
                                           ELSE R(0))]))],
               m |-> s.m])))))

\* the loop of _compute_ERSS3 over components l..K, from the sums acc
RECURSIVE ERSS3Loop(_, _, _)
ERSS3Loop(m, l, acc) ==
    IF l > Len(m.pi) THEN [val |-> acc, m |-> m]
    ELSE Bind([mu |-> ComponentValue(m, l),
               mu2 |-> SecondMomentValue(Touch(m, l), l),
               m |-> Touch2(Touch(m, l), l)],
              LAMBDA s :
                ERSS3Loop(s.m, l + 1,
                          [t \in 1..T |->
                              RAdd(acc[t],
                                   RSub(MaskedSum(s.mu2[t], t),
                                        MaskedSum(Square(s.mu[t]), t)))]))

\* _compute_ERSS3(residual)
ComputeERSS3(m, res) ==
    Bind(IF res = <<>> THEN ComputeResidual(m, 0, TRUE)
         ELSE [val |-> res, m |-> m],
         LAMBDA rc :
             ERSS3Loop(rc.m, 1, [t \in 1..T |-> ResidualSS(rc.val, t)]))

\* _compute_ERSS_summary(): the residual and the first moments are computed
\* and dropped; the value is rebuilt from Y, X, weight_means, weight_vars, pi
ComputeERSSSummary(m) ==
    LET f     == FirstMomentsTo(ComputeResidual(m, 0, TRUE).m, Len(m.pi))
        YY(t) == MaskedSum([j \in 1..M |-> RMul(Y[t][j], Y[t][j])], t)
        YX(t) == [n \in 1..N |->
                     MaskedSum([j \in 1..M |-> RMul(Y[t][j], X[n][j])], t)]
        XX(t) == [n1 \in 1..N |-> [n2 \in 1..N |->
                     MaskedSum(VMul(X[n1], X[n2]), t)]]
        pt1(t) == Sum([k \in 1..Len(m.pi) |-> Sum([n \in 1..N |->
                     RMul(RMul(RAdd(RMul(m.wm[t][k][n], m.wm[t][k][n]),
                                    m.wv[t][k][n]),
                               m.pi[k][n]),
                          GetDiag(t)[n])])])
        mu_pi(t) == [k \in 1..Len(m.pi) |-> VMul(m.wm[t][k], m.pi[k])]
        pt2(t) == [k1 \in 1..Len(m.pi) |-> [k2 \in 1..Len(m.pi) |->
                     Dot(VecMat(mu_pi(t)[k1], XX(t)), mu_pi(t)[k2])]]
        colsum(t) == [n \in 1..N |->
                        Sum([k \in 1..Len(m.pi) |-> mu_pi(t)[k][n]])]
    IN  [val |-> [t \in 1..T |->
                    RSub(RAdd(RAdd(RAdd(YY(t),
                                        RMul(R(-2), Dot(YX(t), colsum(t)))),
                                   pt1(t)),
                              Sum([k \in 1..Len(m.pi) |-> Sum(pt2(t)[k])])),
                         Sum(Diag(pt2(t))))],
         m |-> f.m]

\* the three summands channel t adds to expected_conditional in compute_elbo:
\* -0.5 * mask.sum() * ln(2 pi), 0.5 * mask.sum() * E_ln_tau[t] and
\* -0.5 * E_tau[t] * ERSS[t].  ln(2 pi) and E_ln_tau[t], the finite number
\* digamma(tissue_precision_a[t]) - ln(tissue_precision_b[t]), stay symbolic:
\* the record holds their coefficients and the third summand.
ExpectedConditionalTerm(m, t, ERSS) ==
    [ln2pi    |-> RMul(Frac(-1, 2), R(NSamples(t))),
     E_ln_tau |-> RMul(Frac(1, 2), R(NSamples(t))),
     ERSS     |-> RMul(RMul(Frac(-1, 2), ExpectedTissuePrecision(m)[t]), ERSS[t])]

----------------------------------------------------------------------------
(* Noise-precision and covariate updates, sample engine *)

\* update_tissue_variance(residual)
UpdateTissueVariance(m, res) ==
    Bind(IF res = <<>> THEN ComputeResidual(m, 0, TRUE)
         ELSE [val |-> res, m |-> m], LAMBDA rc :
      Bind(ComputeERSS(rc.m, rc.val), LAMBDA ERSS :
        [ERSS.m EXCEPT
            !.tpa = [t \in 1..T |-> RAdd(hyper_c, Frac(NSamples(t), 2))],
            !.tpb = [t \in 1..T |->
                        RAdd(hyper_d, RDiv(ERSS.val[t], R(2)))]]))

\* update_covariate_weights() with _update_covariate_weights_tissue
UpdateCovariateWeights(m) ==
    IF covariates = <<>> THEN m
    ELSE Bind(ComputeResidual(m, 0, FALSE).val, LAMBDA residual :
           [m EXCEPT !.cw = [t \in 1..T |->
               PinvApply(covariates[t].values,
                         Select(residual[t], covariates[t].map))]])

----------------------------------------------------------------------------
(* sort_components, covariance engine *)

\* model_queries.get_expected_weights(): the posterior expectation of each
\* component's weight, einsum('ijk,jk->ij', weight_means, pi), T x K
get_expected_weights(m) ==
    [t \in 1..Len(m.wm) |-> [k \in 1..Len(m.pi) |-> Dot(m.wm[t][k], m.pi[k])]]

\* np.abs(w).max(0): per component, the largest absolute weight over tissues
Importance(m) ==
    [k \in 1..Len(m.pi) |->
        VMax([t \in 1..Len(m.wm) |-> RAbs(get_expected_weights(m)[t][k])])]

\* np.argsort(x): ascending, ties in index order (insertion sort, K < 16)
Argsort(x) ==
    LET rank(k) == Cardinality({j \in 1..Len(x) :
                        RLt(x[j], x[k]) \/ (x[j] = x[k] /\ j < k)}) + 1
    IN  [r \in 1..Len(x) |-> CHOOSE k \in 1..Len(x) : rank(k) = r]

\* np.flip
Flip(s) == [i \in 1..Len(s) |-> s[Len(s) + 1 - i]]

SortOrder(m) == Flip(Argsort(Importance(m)))

\* sort_components(): weight_means, active and pi are permuted; the
\* cache_clear() of line 297 empties the cache of _compute_prediction_component,
\* which nothing calls, and leaves that of _compute_prediction_component_hash
SortComponents(m) ==
    LET order == SortOrder(m)
    IN  [m EXCEPT !.wm  = [t \in 1..Len(m.wm) |->
                              [k \in 1..Len(order) |-> m.wm[t][order[k]]]],
                  !.act = [t \in 1..Len(m.act) |->
                              [k \in 1..Len(order) |-> m.act[t][order[k]]]],
                  !.pi  = [k \in 1..Len(order) |-> m.pi[order[k]]]]

----------------------------------------------------------------------------
(* update_weights(components), update_pi(components) *)

\* CAFEH2.update_weights:
\* for k in components: self._update_weight_component(k, ARD=ARD)
\* (the ARD branch of _update_weight_component comes before its loop, and
\* reads nothing the residual depends on)
RECURSIVE UpdateWeights(_, _, _)
UpdateWeights(m, components, ARD) ==
    IF components = <<>> THEN m
    ELSE Bind(UpdateWeightComponent(
                  IF ARD THEN ARDPrecision(m, Head(components)) ELSE m,
                  Head(components), <<>>),
              LAMBDA x : UpdateWeights(x, Tail(components), ARD))

\* for k in components: self._update_pi_component(k)
RECURSIVE UpdatePi(_, _)
UpdatePi(m, components) ==
    IF components = <<>> THEN m
    ELSE Bind(UpdatePiComponent(m, Head(components), <<>>),
              LAMBDA x : UpdatePi(x, Tail(components)))

\* np.arange(K), the default component list
AllComponents == [k \in 1..K |-> k]

\* the component lists the model passes: the default and each single component
ComponentLists == {AllComponents} \cup {<<k>> : k \in 1..K}

----------------------------------------------------------------------------
(* Construction *)

NoFrame == [max_iter |-> 0, i |-> 0]

Constructed ==
    /\ elbos = <<>>
    /\ cache = <<>>
    /\ cache2 = <<>>
    /\ pc = "idle"
    /\ frame = NoFrame
    /\ outcome = "constructed"
    /\ sweeps = 0
    /\ ops = 0

\* CAFEH2.__init__
InitCov(in) ==
    LET TT == Len(in.Y)
        NN == Len(in.Y[1])
        pp == [t \in 1..TT |-> [k \in 1..in.K |-> RMul(R(1), in.prior_variance)]]
        pv == [t \in 1..TT |-> [k \in 1..in.K |->
                    RDiv(R(1), RMul(pp[t][k], R(1)))]]
    IN  /\ engine = "cov"
        /\ R1 = in.R1
        /\ Y = in.Y
        /\ prior_precision = pp
        /\ arg_prior_variance = in.prior_variance
        /\ prior_pi = IF in.prior_pi # <<>> THEN in.prior_pi
                      ELSE [n \in 1..NN |-> Frac(1, NN)]
        /\ pi = [k \in 1..in.K |-> [n \in 1..NN |-> Frac(1, NN)]]
        /\ weight_means = [t \in 1..TT |-> [k \in 1..in.K |-> Zeros(NN)]]
        /\ weight_vars = [t \in 1..TT |-> [k \in 1..in.K |-> [n \in 1..NN |->
                              RDiv(pv[t][k], RAdd(pv[t][k], R(1)))]]]
        /\ active = [t \in 1..TT |-> Ones(in.K)]
        /\ R2invR1 = Solve(in.R2, in.R1)
        /\ R1R2invR1 = MatMul(in.R1, Solve(in.R2, in.R1))
        /\ X = <<>>
        /\ covariates = <<>>
        /\ cov_weights = <<>>
        /\ weight_precision_a = <<>>
        /\ weight_precision_b = <<>>
        /\ tissue_precision_a = <<>>
        /\ tissue_precision_b = <<>>
        /\ Constructed

\* IndependentFactorSER.__init__
InitSample(in) ==
    LET TT == Len(in.Y)
        NN == Len(in.X)
    IN  /\ engine = "sample"
        /\ X = in.X
        /\ Y = in.Y
        /\ covariates = in.covariates
        /\ arg_prior_variance = in.prior_variance
        /\ prior_precision = [t \in 1..TT |-> Ones(in.K)]
        /\ prior_pi = IF in.prior_pi # <<>> THEN in.prior_pi
                      ELSE [n \in 1..NN |-> Frac(1, NN)]
        /\ weight_means = [t \in 1..TT |-> [k \in 1..in.K |-> Zeros(NN)]]
        /\ weight_vars = [t \in 1..TT |-> [k \in 1..in.K |-> Ones(NN)]]
        /\ pi = [k \in 1..in.K |-> [n \in 1..NN |-> Frac(1, NN)]]
        /\ cov_weights = IF in.covariates = <<>> THEN <<>>
                         ELSE [t \in 1..TT |->
                                 Zeros(Len(in.covariates[t].values))]
        /\ weight_precision_a = [t \in 1..TT |-> Ones(in.K)]
        /\ weight_precision_b = [t \in 1..TT |-> Ones(in.K)]
        /\ tissue_precision_a = Ones(TT)
        /\ tissue_precision_b = Ones(TT)
        /\ R1 = <<>>
        /\ R2invR1 = <<>>
        /\ R1R2invR1 = <<>>
        /\ active = <<>>
        /\ Constructed

Init ==
    \/ \E in \in CovInputs : InitCov(in)
    \/ \E in \in SampleInputs : InitSample(in)

----------------------------------------------------------------------------
(* Public calls outside fit *)

Idle == pc = "idle" /\ ops < MaxOps

Small(x) == Abs(x[1]) <= MaxNum /\ x[2] <= MaxNum

\* the numbers of the variational state, and of fit's running residual, are
\* within the explored range; the model follows the program through the
\* states where they are
Tame ==
    /\ \A k \in 1..K : \A n \in 1..N : Small(pi[k][n])
    /\ \A t \in 1..T : \A k \in 1..K : \A n \in 1..N :
          Small(weight_means[t][k][n]) /\ Small(weight_vars[t][k][n])
    /\ \A t \in 1..Len(tissue_precision_b) :
          /\ Abs(tissue_precision_b[t][1]) <= MaxRate
          /\ tissue_precision_b[t][2] <= MaxRate
    /\ \A t \in 1..Len(weight_precision_b) : \A k \in 1..K :
          Small(weight_precision_b[t][k])
    /\ \A t \in 1..Len(prior_precision) : \A k \in 1..K :
          Small(prior_precision[t][k])
    /\ \A t \in 1..Len(cov_weights) : \A i \in 1..Len(cov_weights[t]) :
          Small(cov_weights[t][i])
    /\ pc # "idle" =>
          \A t \in 1..T : \A j \in 1..Len(Y[1]) : Small(frame.residual[t][j])

Data == <<engine, R1, R2invR1, R1R2invR1, X, covariates, Y, prior_pi,
          arg_prior_variance>>

\* the variables take the values of the record m
Assign(m) ==
    /\ pi' = m.pi
    /\ weight_means' = m.wm
    /\ weight_vars' = m.wv
    /\ active' = m.act
    /\ prior_precision' = m.pp
    /\ cov_weights' = m.cw
    /\ weight_precision_a' = m.wpa
    /\ weight_precision_b' = m.wpb
    /\ tissue_precision_a' = m.tpa
    /\ tissue_precision_b' = m.tpb
    /\ cache' = m.cache
    /\ cache2' = m.cache2

Store(v) == \E m \in {v} : Assign(m)

\* a faulty recording, which drops the earlier entries: the property of C8
\* has to tell it from AppendElbo
ReplaceElbo(trace, value) == <<value>>

\* self.elbos.append(value)
AppendElbo(trace, value) == Append(trace, value)

Returned(what) ==
    /\ outcome' = what
    /\ ops' = ops + 1
    /\ UNCHANGED <<Data, elbos, pc, frame, sweeps>>
    /\ Tame'

\* CAFEH2.update_weights(components, ARD).  IndependentFactorSER.update_weights
\* passes ARD as the second positional argument of _update_weight_component,
\* its residual: r_k[mask] = 0 on a bool raises TypeError before any write.
CallUpdateWeights ==
    /\ Idle
    /\ \E components \in ComponentLists, ARD \in BOOLEAN :
          IF engine = "cov"
          THEN Store(UpdateWeights(Cur, components, ARD)) /\ Returned("returned")
          ELSE Store(Cur) /\ Returned("TypeError")

CallUpdatePi ==
    /\ Idle
    /\ \E components \in ComponentLists : Store(UpdatePi(Cur, components))
    /\ Returned("returned")

\* compute_prediction_component(k) / compute_first_moment(k)
CallComputePredictionComponent ==
    /\ Idle
    /\ \E k \in 1..K : Store(Touch(Cur, k))
    /\ Returned("returned")

\* compute_second_moment(k)
CallComputeSecondMoment ==
    /\ Idle /\ engine = "sample"
    /\ \E k \in 1..K : Store(Touch2(Cur, k))
    /\ Returned("returned")

CallComputePrediction ==
    /\ Idle
    /\ \E k \in 0..K, use_covariates \in BOOLEAN :
          Store(ComputePrediction(Cur, k, use_covariates).m)
    /\ Returned("returned")

CallComputeResidual ==
    /\ Idle
    /\ \E k \in 0..K, use_covariates \in BOOLEAN :
          Store(ComputeResidual(Cur, k, use_covariates).m)
    /\ Returned("returned")

\* compute_elbo(): CAFEH2 reads the state; IndependentFactorSER calls
\* _compute_ERSS, which goes through both memo caches
CallComputeElbo ==
    /\ Idle
    /\ IF engine = "cov" THEN Store(Cur) ELSE Store(ComputeERSS(Cur, <<>>).m)
    /\ Returned("returned")

\* _compute_ERSS(), _compute_ERSS3(), _compute_ERSS_summary()
CallComputeERSS ==
    /\ Idle /\ engine = "sample"
    /\ \/ Store(ComputeERSS(Cur, <<>>).m)
       \/ Store(ComputeERSS3(Cur, <<>>).m)
       \/ Store(ComputeERSSSummary(Cur).m)
    /\ Returned("returned")

CallUpdateTissueVariance ==
    /\ Idle /\ engine = "sample"
    /\ Store(UpdateTissueVariance(Cur, <<>>))
    /\ Returned("returned")

CallUpdateCovariateWeights ==
    /\ Idle /\ engine = "sample"
    /\ Store(UpdateCovariateWeights(Cur))
    /\ Returned("returned")

CallSortComponents ==
    /\ Idle /\ engine = "cov"
    /\ Store(SortComponents(Cur))
    /\ Returned("sort_components")

\* save(output_dir, model_name): pickles __dict__; X and Y are popped and
\* put back
CallSave ==
    /\ Idle
    /\ Store(Cur)
    /\ Returned("returned")

----------------------------------------------------------------------------
(* fit *)

\* the tolerance, the unit of the ELBO values
Tolerance == 1

\* compute_elbo() needs log and digamma of reals: its value is any of these
ElboValues == 0..MaxElbo

\* model_queries.check_convergence(): |elbos[-1] - elbos[-2]| < tolerance,
\* never on a trace of fewer than two entries
check_convergence(trace) ==
    /\ Len(trace) >= 2
    /\ Abs(trace[Len(trace)] - trace[Len(trace) - 1]) < Tolerance

\* the keyword arguments of fit the model passes: the defaults, and each
\* flag in turn away from its default.  CAFEH2.fit has update_weights,
\* update_pi and ARD_weights.
DefaultFlags ==
    [update_weights |-> TRUE, update_pi |-> TRUE, update_variance |-> TRUE,
     ARD_weights |-> FALSE, update_covariate_weights |-> TRUE]

FitFlags ==
    IF engine = "cov"
    THEN { [DefaultFlags EXCEPT !.update_weights = uw, !.update_pi = up] :
               uw \in BOOLEAN, up \in BOOLEAN }
           \cup { [DefaultFlags EXCEPT !.ARD_weights = TRUE] }
    ELSE { DefaultFlags,
           [DefaultFlags EXCEPT !.update_weights = FALSE],
           [DefaultFlags EXCEPT !.update_pi = FALSE],
           [DefaultFlags EXCEPT !.update_variance = FALSE],
           [DefaultFlags EXCEPT !.ARD_weights = TRUE],
           [DefaultFlags EXCEPT !.update_covariate_weights = FALSE] }

\* the first step of a sweep: the covariate update in the sample engine
SweepStart == IF engine = "sample" THEN "cov" ELSE "add"

\* fit(max_iter, flags) up to the loop: the residual is computed.  With
\* max_iter = 0 the loop body never runs and the line after the loop
\* (cafeh2.py:211, independent_model2.py:442) reads cur_time, which only the
\* loop body assigns: UnboundLocalError.
FitStart ==
    /\ Idle
    /\ \E max_iter \in 0..MaxIter, flags \in FitFlags :
          \E r \in {ComputeResidual(Cur, 0, TRUE)} :
              /\ ops + max_iter <= MaxOps
              /\ Store(r.m)
              /\ IF max_iter = 0
                 THEN /\ pc' = "idle"
                      /\ outcome' = "UnboundLocalError"
                      /\ frame' = NoFrame
                      /\ sweeps' = sweeps
                 ELSE /\ pc' = SweepStart
                      /\ outcome' = "running"
                      /\ frame' = [max_iter |-> max_iter, flags |-> flags,
                                   i |-> 0, l |-> 1, residual |-> r.val]
                      /\ sweeps' = sweeps + 1
    /\ ops' = ops + 1
    /\ UNCHANGED <<Data, elbos>>
    /\ Tame'

\* residual += self._compute_covariate_prediction(True)
\* if covariates is not None and update_covariate_weights:
\*     self.update_covariate_weights()
\* residual -= self._compute_covariate_prediction(True)
FitCovariates ==
    /\ pc = "cov"
    /\ \E m \in {IF frame.flags.update_covariate_weights
                 THEN UpdateCovariateWeights(Cur) ELSE Cur} :
           /\ Assign(m)
           /\ frame' = [frame EXCEPT !.residual =
                           MSub(MAdd(@, CovariatePrediction(Cur, TRUE)),
                                CovariatePrediction(m, TRUE))]
    /\ pc' = "add"
    /\ UNCHANGED <<Data, elbos, outcome, sweeps, ops>>
    /\ Tame'

\* residual = residual + self.compute_prediction_component(l)
\* (compute_first_moment(l) in the sample engine)
FitAddBack ==
    /\ pc = "add"
    /\ frame' = [frame EXCEPT
                   !.residual = MAdd(@, ComponentValue(Cur, frame.l))]
    /\ Store(Touch(Cur, frame.l))
    /\ pc' = "weights"
    /\ UNCHANGED <<Data, elbos, outcome, sweeps, ops>>
    /\ Tame'

\* a faulty step of fit, which updates the weights whatever update_weights
\* says: the property of C14 has to tell it from FitUpdateWeights
FitUpdateWeightsUnconditional ==
    /\ pc = "weights"
    /\ Store(UpdateWeightComponent(Cur, frame.l, frame.residual))
    /\ frame' = [frame EXCEPT !.residual = RuleResidual(Cur, frame.l, @).val]
    /\ pc' = "pi"
    /\ UNCHANGED <<Data, elbos, outcome, sweeps, ops>>
    /\ Tame'

\* the ARD update of a step of fit with ARD_weights=True: update_ARD_weights(l)
\* in the sample engine, and in CAFEH2 the ARD branch of
\* _update_weight_component, which runs only if update_weights
FitARD(m, l, flags) ==
    IF ~flags.ARD_weights THEN m
    ELSE IF engine = "sample" THEN UpdateARDWeights(m, l)
    ELSE IF flags.update_weights THEN ARDPrecision(m, l)
    ELSE m

\* if ARD_weights: self.update_ARD_weights(l)            (sample engine)
\* if update_weights: self._update_weight_component(l, ARD=ARD_weights,
\*                                                  residual=residual)
FitUpdateWeights ==
    /\ pc = "weights"
    /\ \E m \in {FitARD(Cur, frame.l, frame.flags)} :
           IF frame.flags.update_weights
           THEN /\ Store(UpdateWeightComponent(m, frame.l, frame.residual))
                /\ frame' = [frame EXCEPT !.residual =
                                RuleResidual(m, frame.l, @).val]
           ELSE Store(m) /\ frame' = frame
    /\ pc' = "pi"
    /\ UNCHANGED <<Data, elbos, outcome, sweeps, ops>>
    /\ Tame'

\* a faulty step of fit, a batch update of the assignments of all the
\* components at once: the property of C15 has to tell it from FitUpdatePi
FitUpdatePiBatch ==
    /\ pc = "pi"
    /\ Store(UpdatePi(Cur, AllComponents))
    /\ frame' = frame
    /\ pc' = "sub"
    /\ UNCHANGED <<Data, elbos, outcome, sweeps, ops>>
    /\ Tame'

\* if update_pi: self._update_pi_component(l, residual=residual)
FitUpdatePi ==
    /\ pc = "pi"
    /\ IF frame.flags.update_pi
       THEN /\ Store(UpdatePiComponent(Cur, frame.l, frame.residual))
            /\ frame' = [frame EXCEPT !.residual =
                            RuleResidual(Cur, frame.l, @).val]
       ELSE Store(Cur) /\ frame' = frame
    /\ pc' = "sub"
    /\ UNCHANGED <<Data, elbos, outcome, sweeps, ops>>
    /\ Tame'

\* residual = residual - self.compute_prediction_component(l)
FitSubtract ==
    /\ pc = "sub"
    /\ frame' = [frame EXCEPT
                   !.residual = MSub(@, ComponentValue(Cur, frame.l)),
                   !.l = @ + 1]
    /\ Store(Touch(Cur, frame.l))
    /\ pc' = IF frame.l < K THEN "add"
             ELSE IF engine = "sample" THEN "var" ELSE "elbo"
    /\ UNCHANGED <<Data, elbos, outcome, sweeps, ops>>
    /\ Tame'

\* if update_variance: self.update_tissue_variance(residual=residual)
FitUpdateVariance ==
    /\ pc = "var"
    /\ IF frame.flags.update_variance
       THEN Store(UpdateTissueVariance(Cur, frame.residual))
       ELSE Store(Cur)
    /\ pc' = "elbo"
    /\ UNCHANGED <<Data, elbos, frame, outcome, sweeps, ops>>
    /\ Tame'

\* self.elbos.append(self.compute_elbo(...)); if self.check_convergence():
\* break -- and the loop ends after max_iter sweeps
FitEndSweep ==
    /\ pc = "elbo"
    /\ IF engine = "cov" THEN Store(Cur)
       ELSE Store(ComputeERSS(Cur, frame.residual).m)
    /\ \E value \in ElboValues : elbos' = AppendElbo(elbos, value)
    /\ IF check_convergence(elbos')
       THEN /\ pc' = "idle" /\ outcome' = "converged"
            /\ frame' = [max_iter |-> frame.max_iter, i |-> frame.i + 1]
            /\ UNCHANGED <<sweeps, ops>>
       ELSE IF frame.i + 1 = frame.max_iter
       THEN /\ pc' = "idle" /\ outcome' = "max_iter"
            /\ frame' = [max_iter |-> frame.max_iter, i |-> frame.i + 1]
            /\ UNCHANGED <<sweeps, ops>>
       ELSE /\ pc' = SweepStart /\ outcome' = outcome
            /\ frame' = [frame EXCEPT !.i = @ + 1, !.l = 1]
            /\ sweeps' = sweeps + 1
            /\ ops' = ops + 1
    /\ UNCHANGED Data
    /\ Tame'

Next ==
    \/ FitStart
    \/ FitCovariates
    \/ FitAddBack
    \/ FitUpdateWeights
    \/ FitUpdatePi
    \/ FitSubtract
    \/ FitUpdateVariance
    \/ FitEndSweep
    \/ CallUpdateWeights
    \/ CallUpdatePi
    \/ CallComputePredictionComponent
    \/ CallComputeSecondMoment
    \/ CallComputePrediction
    \/ CallComputeResidual
    \/ CallComputeElbo
    \/ CallComputeERSS
    \/ CallUpdateTissueVariance
    \/ CallUpdateCovariateWeights
    \/ CallSortComponents
    \/ CallSave

Spec == Init /\ [][Next]_vars

----------------------------------------------------------------------------
(* Construction from arguments of any dimensions *)

\* the sizes the dimensions N and M of the arguments are drawn from
ShapeSizes == {2, 3}

\* an r x c array of ones
OnesMat(r, c) == [i \in 1..r |-> Ones(c)]

\* np.ones(n) / n, and None
PriorPiArguments == {<<>>} \cup {[i \in 1..n |-> Frac(1, n)] : n \in ShapeSizes}

\* constructor arguments whose dimensions need not agree: T = 1 channel,
\* K = 1 or 2 components
ShapeInputs ==
    { [engine |-> "cov", R1 |-> IdentityN(n1), R2 |-> IdentityN(n2),
       Y |-> OnesMat(1, n), K |-> k, prior_variance |-> R(1), prior_pi |-> p] :
          n1 \in ShapeSizes, n2 \in ShapeSizes, n \in ShapeSizes,
          k \in 1..2, p \in PriorPiArguments }
    \cup
    { [engine |-> "sample", X |-> OnesMat(n, mx), Y |-> OnesMat(1, my),
       K |-> k, covariates |-> <<>>, prior_variance |-> R(1), prior_pi |-> p] :
          n \in ShapeSizes, mx \in ShapeSizes, my \in ShapeSizes,
          k \in 1..2, p \in PriorPiArguments }

\* CAFEH2.__init__ raises at line 61: no object exists
ConstructionFailed(in) ==
    /\ engine = in.engine
    /\ R1 = in.R1
    /\ Y = in.Y
    /\ arg_prior_variance = in.prior_variance
    /\ prior_pi = <<>> /\ pi = <<>> /\ prior_precision = <<>>
    /\ weight_means = <<>> /\ weight_vars = <<>> /\ active = <<>>
    /\ R2invR1 = <<>> /\ R1R2invR1 = <<>> /\ X = <<>> /\ covariates = <<>>
    /\ cov_weights = <<>>
    /\ weight_precision_a = <<>> /\ weight_precision_b = <<>>
    /\ tissue_precision_a = <<>> /\ tissue_precision_b = <<>>
    /\ elbos = <<>> /\ cache = <<>> /\ cache2 = <<>>
    /\ pc = "idle" /\ frame = NoFrame /\ sweeps = 0 /\ ops = 0
    /\ outcome = "construction failed"

\* the constructors: the only statement that compares two dimensions is
\* np.linalg.solve(self.R2, self.R1) of CAFEH2
InitShapes ==
    \E in \in ShapeInputs :
        IF in.engine = "sample" THEN InitSample(in)
        ELSE IF SolveRaises(in.R2, in.R1) THEN ConstructionFailed(in)
        ELSE InitCov(in)

\* an object exists
Alive == outcome # "construction failed"

\* (pi * weights) @ self.R1 of _compute_prediction_component_hash, and
\* prediction += self.expected_effects @ self.X of compute_prediction, raise
\* ValueError when the dimensions disagree
PredictionRaises ==
    IF engine = "cov" THEN Len(Y[1]) # Len(R1) ELSE Len(X[1]) # Len(Y[1])

\* self.X[:, mask] of _get_diag raises IndexError when the mask of Y has
\* not the length of X's rows
DiagRaises == engine = "sample" /\ Len(X[1]) # Len(Y[1])

\* pi_k += np.log(self.prior_pi) raises ValueError when prior_pi has not
\* the length N (a length of 1 would broadcast)
PriorPiRaises == engine = "sample" /\ Len(prior_pi) \notin {1, N}

\* a call that raises before it writes anything
Raises(what) == Idle /\ Store(Cur) /\ Returned(what)

\* compute_residual(k) on an object of any dimensions
ShapeComputeResidual ==
    /\ Alive
    /\ IF PredictionRaises THEN Raises("ValueError")
       ELSE CallComputeResidual

\* update_weights(components) on an object of any dimensions
ShapeUpdateWeights ==
    /\ Alive
    /\ IF DiagRaises THEN Raises("IndexError")
       ELSE IF PredictionRaises THEN Raises("ValueError")
       ELSE CallUpdateWeights

\* update_pi(components) on an object of any dimensions: with a prior_pi of
\* the wrong length the first component's residual is computed before line
\* 315 raises
ShapeUpdatePi ==
    /\ Alive
    /\ IF DiagRaises THEN Raises("IndexError")
       ELSE IF PredictionRaises THEN Raises("ValueError")
       ELSE IF PriorPiRaises
       THEN /\ Idle
            /\ \E components \in ComponentLists :
                  Store(ComputeResidual(Cur, Head(components), TRUE).m)
            /\ Returned("ValueError")
       ELSE CallUpdatePi

NextShapes ==
    \/ ShapeComputeResidual
    \/ ShapeUpdateWeights
    \/ ShapeUpdatePi

SpecShapes == InitShapes /\ [][NextShapes]_vars

----------------------------------------------------------------------------
(* The sample engine with covariates recorded for every sample: the          *)
(* covariates of a channel cover a sample whose outcome is missing there.   *)
(* sample_covariate_map (line 50) is np.isin(sample_ids, covariates[tissue] *)
(* .columns), whatever Y holds.                                             *)

CoveredInputs ==
    { [X |-> IntMat(<<<<1, 0, 1>>, <<0, 1, 1>>>>),
       Y |-> <<<<R(1), NaN, R(2)>>, <<NaN, NaN, NaN>>>>,
       K |-> 2, prior_variance |-> R(1), prior_pi |-> <<>>,
       covariates |->
           << [values |-> IntMat(<<<<1, 1, 1>>>>), map |-> <<TRUE, TRUE, TRUE>>],
              [values |-> <<<<>>>>, map |-> <<FALSE, FALSE, FALSE>>] >>] }

InitCovered == \E in \in CoveredInputs : InitSample(in)

NextCovered ==
    \/ FitStart
    \/ FitCovariates
    \/ FitAddBack
    \/ FitUpdateWeights
    \/ FitUpdatePi
    \/ FitSubtract
    \/ FitUpdateVariance
    \/ FitEndSweep
    \/ CallUpdateCovariateWeights
    \/ CallUpdatePi
    \/ CallUpdateTissueVariance
    \/ CallComputeERSS

SpecCovered == InitCovered /\ [][NextCovered]_vars

----------------------------------------------------------------------------
(* Properties *)

\* the sum of the current contributions of the components other than k (of
\* all components for k = 0), recomputed from the state, plus the covariate
\* prediction in the sample engine
DirectPrediction(k, use_covariates) ==
    LET contribution(l) ==
            IF l = k THEN ZerosLike(Y) ELSE ComponentDirect(Cur, l)
        RECURSIVE upto(_)
        upto(l) == IF l = 0 THEN ZerosLike(Y)
                   ELSE MAdd(upto(l - 1), contribution(l))
    IN  IF engine = "cov" THEN upto(K)
        ELSE MAdd(CovariatePrediction(Cur, use_covariates), upto(K))

\* C1: in both engines compute_prediction_component(k) / compute_first_moment(k)
\* returns what a direct recomputation from the current state gives, for
\* every component, in every state; never a value of an earlier state.
C1_ComponentIsCurrent ==
    \A k \in 1..K : ComponentValue(Cur, k) = ComponentDirect(Cur, k)

\* C2: when sort_components() has returned, the cache that
\* compute_prediction_component consults holds no entry, so that every
\* component's prediction is computed from the reordered state.
C2_SortClearsCache ==
    outcome = "sort_components" =>
        /\ cache = <<>>
        /\ \A k \in 1..K :
              ComponentValue(Cur, k)
                  = PredictionComponentDirect(active, pi, weight_means, k)

\* C3: in the covariance engine compute_prediction() returns the same array
\* immediately before and immediately after sort_components(), in every
\* state between two calls.
C3_SortPreservesPrediction ==
    (engine = "cov" /\ pc = "idle") =>
        LET before == ComputePrediction(Cur, 0, TRUE)
            after  == ComputePrediction(SortComponents(before.m), 0, TRUE)
        IN  after.val = before.val

\* C4: in both engines compute_prediction() is the sum of the components'
\* current contributions (plus the covariate prediction in the sample engine
\* when use_covariates is true), compute_prediction(k) is that sum without
\* component k's, and compute_residual(k) is Y minus compute_prediction(k).
C4_PredictionIsSum ==
    \A k \in 0..K : \A use_covariates \in BOOLEAN :
        /\ ComputePrediction(Cur, k, use_covariates).val
              = DirectPrediction(k, use_covariates)
        /\ ComputeResidual(Cur, k, use_covariates).val
              = MSub(Y, ComputePrediction(Cur, k, use_covariates).val)

C6_ElbosNonDecreasing ==
    \A i \in 1..(Len(elbos) - 1) : elbos[i] <= elbos[i + 1]

\* how a call of fit can end
FitOutcomes == {"converged", "max_iter", "UnboundLocalError"}

\* C7: fit(max_iter) ends in one of two ways: converged, right after the
\* first sweep at whose end the convergence test holds, or after exactly
\* max_iter sweeps without convergence; it never runs more than max_iter
\* sweeps and no sweep after convergence was detected.
C7_FitTerminates ==
    /\ (pc = "idle" /\ outcome \in FitOutcomes) =>
          \/ /\ outcome = "converged"
             /\ check_convergence(elbos)
             /\ frame.i <= frame.max_iter
          \/ /\ outcome = "max_iter"
             /\ ~check_convergence(elbos)
             /\ frame.i = frame.max_iter
    /\ pc # "idle" =>
          /\ frame.i < frame.max_iter
          /\ frame.i >= 1 => ~check_convergence(elbos)

\* C8: elbos is append-only.  Only the end of a sweep changes it, by
\* appending exactly one value; every other step leaves it as it is; and its
\* length is the number of sweeps carried out over all fit calls (the sweep
\* under way not counted).
C8_ElbosAppendOnly ==
    [][/\ IF pc = "elbo"
          THEN \E value \in ElboValues : elbos' = Append(elbos, value)
          ELSE elbos' = elbos
       /\ Len(elbos') = IF pc' = "idle" THEN sweeps' ELSE sweeps' - 1]_vars

\* two sweeps have been recorded and fit has returned
C8_Witness == pc = "idle" /\ Len(elbos) = 2 /\ sweeps = 2

\* the channels of the sample engine without any observation
MissingChannels == {t \in 1..T : \A j \in 1..M : IsNaN(Y[t][j])}

C10_ERSSFormulationsAgree ==
    engine = "sample" =>
        /\ ComputeERSS(Cur, <<>>).val = ComputeERSS3(Cur, <<>>).val
        /\ ComputeERSS(Cur, <<>>).val = ComputeERSSSummary(Cur).val

\* the residuals a component rule can be handed in the current state: the one
\* it computes itself when none is passed, and fit's running residual
ResidualInputs(k) ==
    {ComputeResidual(Cur, k, TRUE).val}
        \cup (IF pc # "idle" THEN {frame.residual} ELSE {})

\* C11: in each engine and for every component k, the weight update (no ARD)
\* applied twice in succession with the same residual leaves the state the
\* first application left, and so does the assignment update applied twice.
\* (The sample engine zeroes the missing entries of the residual in place:
\* the second application is handed the residual the first one left.)
C11_UpdatesAreIdempotent ==
    \A k \in 1..K : \A res \in ResidualInputs(k) :
        /\ Bind(UpdateWeightComponent(Cur, k, res), LAMBDA once :
              UpdateWeightComponent(once, k,
                                    RuleResidual(Cur, k, res).val) = once)
        /\ Bind(UpdatePiComponent(Cur, k, res), LAMBDA once :
              UpdatePiComponent(once, k,
                                RuleResidual(Cur, k, res).val) = once)

\* fit is about to update a component, and both of its updates change the
\* state
C11_Witness ==
    /\ pc = "weights"
    /\ UpdateWeightComponent(Cur, frame.l, frame.residual).wm # weight_means
    /\ UpdatePiComponent(Cur, frame.l, frame.residual).pi # pi

\* the exceptions numpy raises on arrays whose dimensions disagree
ShapeErrors == {"ValueError", "IndexError"}

\* the dimensions of the arguments the object was built from agree
InputsAgree ==
    /\ Len(prior_pi) = N
    /\ IF engine = "cov" THEN Len(R1) = Len(Y[1]) /\ N = Len(Y[1])
       ELSE Len(X[1]) = Len(Y[1]) /\ N = Len(X)

\* C12: constructing either engine from arguments whose dimensions disagree
\* fails at construction: every object that exists was built from arguments
\* whose dimensions agree, and no later call fails on the dimensions.
C12_MismatchFailsAtConstruction ==
    /\ Alive => InputsAgree
    /\ outcome \notin ShapeErrors

\* the prior variance of weight (t, k) the weight update and the assignment
\* update use: prior_variance()[t, k] in CAFEH2, and in IndependentFactorSER
\* 1 / expected_weight_precision[t, k]
PriorVarianceUsed(t, k) ==
    IF engine = "cov" THEN PriorVariance(prior_precision)[t][k]
    ELSE RDiv(R(1), ExpectedWeightPrecision(Cur)[t][k])

\* no ARD update has written the precision of weight (t, k): it still has
\* the value the constructor stored
ARDUntouched(t, k) ==
    IF engine = "cov" THEN prior_precision[t][k] = arg_prior_variance
    ELSE weight_precision_a[t][k] = R(1) /\ weight_precision_b[t][k] = R(1)

\* C13: in both engines the prior variance of every weight, as the weight
\* update and the assignment update use it, equals the constructor's option
\* prior_variance for as long as no ARD update has changed it
C13_PriorVarianceIsTheOption ==
    \A t \in 1..T : \A k \in 1..K :
        ARDUntouched(t, k) => PriorVarianceUsed(t, k) = arg_prior_variance

\* C14: every step of fit leaves alone what its flags switch off:
\* weight_means and weight_vars with update_weights=False, pi with
\* update_pi=False and, in the sample engine, the tissue precision
\* parameters with update_variance=False and the covariate weights with
\* update_covariate_weights=False
C14_DisabledUpdatesLeaveState ==
    [][pc # "idle" =>
        /\ ~frame.flags.update_weights =>
              weight_means' = weight_means /\ weight_vars' = weight_vars
        /\ ~frame.flags.update_pi => pi' = pi
        /\ engine = "sample" /\ ~frame.flags.update_variance =>
              /\ tissue_precision_a' = tissue_precision_a
              /\ tissue_precision_b' = tissue_precision_b
        /\ engine = "sample" /\ ~frame.flags.update_covariate_weights =>
              cov_weights' = cov_weights]_vars

\* a sweep of fit(update_weights=False) has run all its updates: the weights
\* are the constructor's and pi has moved
C14_Witness ==
    /\ pc = "elbo"
    /\ ~frame.flags.update_weights
    /\ \A t \in 1..T : \A k \in 1..K : weight_means[t][k] = Zeros(N)
    /\ \E k \in 1..K : pi[k] # [n \in 1..N |-> Frac(1, N)]

\* the steps of fit that belong to one component, in the order of the loop
ComponentSteps == <<"add", "weights", "pi", "sub">>

\* the rows of component k in the arrays the updates write
ComponentRows(k) ==
    <<pi[k], [t \in 1..T |-> weight_means[t][k]],
      [t \in 1..T |-> weight_vars[t][k]]>>

\* C15: within a sweep of fit the components are processed one at a time in
\* increasing order, each once, and for each the steps are: add its
\* contribution back to the running residual, weight update, assignment
\* update, subtract its new contribution; a step writes the rows of the
\* component in turn only
C15_SweepIsSequential ==
    [][/\ pc' = "add" => frame'.l = IF pc = "sub" THEN frame.l + 1 ELSE 1
       /\ pc \in {"add", "weights", "pi"} =>
             /\ \E s \in 1..3 : pc = ComponentSteps[s] /\ pc' = ComponentSteps[s + 1]
             /\ frame'.l = frame.l
       /\ pc = "sub" => IF frame.l < K THEN pc' = "add"
                        ELSE frame.l = K /\ pc' \notin {"add", "weights", "pi", "sub"}
       /\ pc' = "weights" => pc = "add"
       /\ pc' = "pi" => pc = "weights"
       /\ pc' = "sub" => pc = "pi"
       /\ pc = "add" =>
             frame'.residual = MAdd(frame.residual, ComponentValue(Cur, frame.l))
       /\ pc = "sub" =>
             frame'.residual = MSub(frame.residual, ComponentValue(Cur, frame.l))
       /\ pc \in {"add", "sub"} => \A k \in 1..K : ComponentRows(k)' = ComponentRows(k)
       /\ pc \in {"weights", "pi"} =>
             \A k \in 1..K \ {frame.l} : ComponentRows(k)' = ComponentRows(k)
       /\ pc = "weights" => pi' = pi
       /\ pc = "pi" => weight_means' = weight_means /\ weight_vars' = weight_vars
      ]_vars

\* the last component of a sweep has had its updates after the first: both
\* have moved from the constructor's values
C15_Witness ==
    /\ pc = "sub"
    /\ K > 1
    /\ frame.l = K
    /\ \A k \in 1..K :
          /\ pi[k] # [n \in 1..N |-> Frac(1, N)]
          /\ \E t \in 1..T : weight_means[t][k] # Zeros(N)

\* A and B agree at every observed entry of Y
ObservedEqual(A, B) ==
    \A t \in 1..T : \A j \in 1..Len(Y[t]) :
        ~IsNaN(Y[t][j]) => A[t][j] = B[t][j]

\* C16: during fit the running residual handed to the weight and assignment
\* updates of component l is, at every observed entry, Y minus the current
\* contributions of the other components (and the covariate prediction),
\* and at the end of a sweep it is Y minus the current contributions of all
C16_RunningResidualIsCurrent ==
    /\ pc \in {"weights", "pi"} =>
          ObservedEqual(frame.residual, MSub(Y, DirectPrediction(frame.l, TRUE)))
    /\ pc \in {"var", "elbo"} =>
          ObservedEqual(frame.residual, MSub(Y, DirectPrediction(0, TRUE)))

\* the expected data log-likelihood of assigning component k to each variant
\* minus the KL divergence of the variant's weight posterior from its prior,
\* as each engine computes them
Evidence(m, k, r_k) ==
    IF engine = "cov" THEN PiScore(m, k, r_k) ELSE SampleEvidence(m, k, r_k)

\* C17: in both engines the assignment update of component k normalises the
\* score: expected data log-likelihood, minus the KL divergence of the
\* weight posterior from its prior, plus log prior_pi[n]
C17_ScoreHasThreeTerms ==
    \A k \in 1..K :
        Bind(RuleResidual(Cur, k, <<>>), LAMBDA rc :
            UpdatePiComponent(Cur, k, <<>>).pi[k] =
                Normalize(VAdd(Evidence(Cur, k, rc.val), LogPrior)))

\* the prior precision of weight (t, k) a weight update in state m uses:
\* 1 / prior_variance()[t, k] in CAFEH2, expected_weight_precision[t, k] in
\* IndependentFactorSER
PrecisionUsed(m, t, k) ==
    IF engine = "cov" THEN RMul(m.pp[t][k], prior_component_precision[k])
    ELSE ExpectedWeightPrecision(m)[t][k]

\* the mode (shape - 1) / rate of the Gamma posterior of the precision of
\* weight (t, k) in state m, clipped into the range
ClippedMode(m, t, k) ==
    LET shape == RAdd(IF engine = "cov" THEN alpha0 ELSE hyper_a, Frac(1, 2))
        rate  == RAdd(IF engine = "cov" THEN beta0 ELSE hyper_b,
                      RDiv(WeightSecondMoment(m, k)[t], R(2)))
    IN  Clip(RDiv(RSub(shape, R(1)), rate), ClipLow, ClipHigh)

\* this step of fit runs an ARD update of the precisions of component frame.l
ARDRuns ==
    /\ pc = "weights"
    /\ frame.flags.ARD_weights
    /\ engine = "cov" => frame.flags.update_weights

\* C18: in either engine, after a step of fit that runs the ARD update of a
\* component, the prior precision its weight updates use is the mode of the
\* Gamma posterior, (shape - 1) / rate, clipped into the range, and so lies
\* within the range
C18_ARDPrecisionIsClippedMode ==
    [][ARDRuns =>
          \A t \in 1..T :
              /\ PrecisionUsed(Cur, t, frame.l)' = ClippedMode(Cur, t, frame.l)
              /\ RLe(ClipLow, PrecisionUsed(Cur, t, frame.l)')
              /\ RLe(PrecisionUsed(Cur, t, frame.l)', ClipHigh)]_vars

\* C19: in the sample engine compute_second_moment(k) returns, in every
\* state and for every component, what a direct recomputation from the
\* current state gives, (pi[k] * (weight_means[:, k]**2 + weight_vars[:, k]))
\* @ X**2
C19_SecondMomentIsCurrent ==
    engine = "sample" =>
        \A k \in 1..K : SecondMomentValue(Cur, k) = SecondMomentDirect(Cur, k)

\* no entry of a vector, of a matrix, of a T x K x N array is NaN
Finite1(v) == \A i \in 1..Len(v) : ~IsNaN(v[i])

Finite2(A) == \A i \in 1..Len(A) : Finite1(A[i])

Finite3(W) == \A i \in 1..Len(W) : Finite2(W[i])

\* the ERSS of the state, as _compute_ERSS() gives it, and within a sweep of
\* fit as it gives it for fit's running residual
ERSSValues ==
    {ComputeERSS(Cur, <<>>).val}
        \cup (IF pc \in {"var", "elbo"}
              THEN {ComputeERSS(Cur, frame.residual).val} ELSE {})

\* C20: in the sample engine no NaN appears in pi, weight_means,
\* weight_vars, the covariate weights, the tissue precision parameters, the
\* ERSS or the ERSS summand of the ELBO, in any state, whatever outcomes are
\* missing
C20_NoNaN ==
    engine = "sample" =>
        /\ Finite2(pi)
        /\ Finite3(weight_means)
        /\ Finite3(weight_vars)
        /\ Finite2(cov_weights)
        /\ Finite1(tissue_precision_a)
        /\ Finite1(tissue_precision_b)
        /\ \A ERSS \in ERSSValues :
              /\ Finite1(ERSS)
              /\ \A t \in 1..T :
                    ~IsNaN(ExpectedConditionalTerm(Cur, t, ERSS).ERSS)

\* the permutations of the component indices
ComponentPermutations ==
    {order \in [1..K -> 1..K] : \A i, j \in 1..K : order[i] = order[j] => i = j}

\* the per-component parameters of component k of the record m: pi[k] and
\* column k of weight_means, weight_vars, active and prior_precision
ComponentOf(m, k) ==
    [pi |-> m.pi[k],
     wm |-> [t \in 1..T |-> m.wm[t][k]],
     wv |-> [t \in 1..T |-> m.wv[t][k]],
     act |-> [t \in 1..T |-> m.act[t][k]],
     pp |-> [t \in 1..T |-> m.pp[t][k]]]

\* C21: sort_components applies one permutation to every per-component
\* array: after it each component's pi, weight means, weight variances,
\* activity and prior precision are those of one component before it
C21_SortKeepsComponentsTogether ==
    [][outcome' = "sort_components" =>
          \E order \in ComponentPermutations :
              \A k \in 1..K : ComponentOf(Cur, k)' = ComponentOf(Cur, order[k])]_vars

\* C22: in the sample engine the public update_weights(components, ARD)
\* completes without error: no call of it ends in the TypeError that
\* r_k[mask] = 0 raises on the bool it is handed as its residual
C22_SampleUpdateWeightsCompletes ==
    engine = "sample" => outcome # "TypeError"

\* C23: a call of fit that runs no sweep (max_iter = 0) returns normally,
\* its iteration budget exhausted, and leaves pi, the weights and elbos
\* unchanged
C23_FitWithoutSweepReturns ==
    [][(pc = "idle" /\ pc' = "idle" /\ outcome' \in FitOutcomes) =>
          /\ outcome' = "max_iter"
          /\ pi' = pi
          /\ weight_means' = weight_means
          /\ weight_vars' = weight_vars
          /\ elbos' = elbos]_vars

\* x is a number above 0
Positive(x) == RLt(R(0), x)

\* C24: in the sample engine, in every state and for every channel, the
\* ERSS update_tissue_variance gets is >= 0, tissue_precision_a and
\* tissue_precision_b are > 0, and the expected noise precision is a number
\* above 0
C24_ERSSAndPrecisionPositive ==
    engine = "sample" =>
        \A t \in 1..T :
            /\ \A ERSS \in ERSSValues : RLe(R(0), ERSS[t])
            /\ Positive(tissue_precision_a[t])
            /\ Positive(tissue_precision_b[t])
            /\ Positive(ExpectedTissuePrecision(Cur)[t])

\* every component but l keeps its assignments, its weight means and
\* variances and its precisions
OthersKept(l) ==
    \A k \in (1..K) \ {l} :
        /\ pi'[k] = pi[k]
        /\ \A t \in 1..T :
              /\ weight_means'[t][k] = weight_means[t][k]
              /\ weight_vars'[t][k] = weight_vars[t][k]
        /\ \A t \in 1..Len(prior_precision) :
              prior_precision'[t][k] = prior_precision[t][k]
        /\ \A t \in 1..Len(weight_precision_b) :
              /\ weight_precision_a'[t][k] = weight_precision_a[t][k]
              /\ weight_precision_b'[t][k] = weight_precision_b[t][k]

\* fit is at the weight update or at the assignment update of component
\* frame.l, to which it passes its running residual
RuleSteps == pc \in {"weights", "pi"}

\* C25: in both engines the weight update and the assignment update of
\* component k write the slices of component k only: the parameters of every
\* other component, the data, elbos and the residual array the caller passed
\* are as they were before the update
C25_UpdateWritesOwnComponentOnly ==
    [][RuleSteps =>
          /\ OthersKept(frame.l)
          /\ UNCHANGED <<Data, elbos, active, cov_weights,
                         tissue_precision_a, tissue_precision_b>>
          /\ frame'.residual = frame.residual]_vars

====
